---- MODULE Spec2Model ----
(***************************************************************************)
(* Model of the suite pipeline of elm-torture (src/src/lib/suite.rs):      *)
(* compile, run, OutDir, compile_and_run and compile_and_run_suites.       *)
(*                                                                         *)
(* Spec        the batch iterator compile_and_run_suites, and one direct   *)
(*             call of compile_and_run (with or without a provided         *)
(*             output directory), over an abstract file system.            *)
(* SpecCompile the function compile applied to every combination of its    *)
(*             environment inputs.                                         *)
(* SpecRun     the function run, likewise.                                 *)
(* SpecMain    run_app of src/src/main.rs over the results of the library  *)
(*             call it makes for each suite.                               *)
(***************************************************************************)
EXTENDS Integers, Sequences, FiniteSets, TLC

\* ---------------------------------------------------------------- bounds
MaxSuites == 3

SuitePaths == {"s1", "s2"}

\* ------------------------------------------------------------ path names
\* Output directory paths are numbers: 0 is the path a caller provides,
\* n >= 1 is the n-th directory made by tempfile, -1 is PathBuf::new().
ProvidedPath == 0
EmptyPath == -1
OutPaths == 0..(MaxSuites + 1)

VARIABLES
    task,             \* "RunSuites": compile_and_run_suites; "RunSuite": one direct compile_and_run
    suites,           \* the input iterator's items, in order
    provided_out_dir, \* TRUE iff the caller passes Some(ProvidedPath)
    instructions,     \* [fail_fast, clear_elm_stuff, allowed_failures]
    idx,              \* number of items pulled from the input iterator
    pc,               \* position inside the iterator / compile_and_run
    cur,              \* locals of the running compile_and_run call
    out_dir,          \* the local `out_dir` of the running call
    res,              \* the value compile_and_run returned
    output,           \* the items the iterator has yielded so far
    disk,             \* kind of every output path on disk
    tmp_count,        \* number of temporary directories created so far
    hist,             \* hist[i]: what the i-th call of compile_and_run did:
                      \* the stages it went through, the OutDir it acquired
                      \* and the value it returned
    cin, cout,        \* SpecCompile: input and result of compile
    rin, rout,        \* SpecRun: input and result of run
    exit_code,        \* SpecMain: the status the process exits with, -1 while it runs
    lib_res           \* SpecMain: what lib::run_suite returned for each suite tried

vars == <<task, suites, provided_out_dir, instructions, idx, pc, cur, out_dir,
          res, output, disk, tmp_count, hist, cin, cout, rin, rout, exit_code,
          lib_res>>

config == <<task, suites, provided_out_dir, instructions>>

fnvars == <<cin, cout, rin, rout, exit_code, lib_res>>

batchvars == <<idx, cur, out_dir, res, output, disk, tmp_count, hist>>

\* ------------------------------------------------------------ OutDir<P>
NoOutDir == [state |-> "None", path |-> EmptyPath]

Provided(p) == [state |-> "Provided", path |-> p]

Tempory(p) == [state |-> "Tempory", path |-> p]

Persistent(p) == [state |-> "Persistent", path |-> p]

\* OutDir::path
path(od) == od.path

\* Mutant: the variant test of line 195 is lost and the default value of
\* line 193 is what persist leaves behind for a Tempory.
persist_default(od) == IF od.state = "Tempory" THEN Persistent(EmptyPath) ELSE od

\* Mutant: every variant is turned into Persistent.
persist_all(od) == Persistent(od.path)

\* replace_with's closure of OutDir::persist; TempDir::into_path keeps the
\* directory and returns its path.
persist(od) ==
    IF od.state = "Tempory" THEN Persistent(od.path) ELSE od

\* Mutant: the TempDir is leaked instead of dropped.
drop_leak(od, d) == d

\* Dropping an OutDir value: only a TempDir removes its directory.
drop(od, d) == IF od.state = "Tempory" THEN [d EXCEPT ![od.path] = "absent"] ELSE d

\* ------------------------------------------------------------- compile
CompileErrors == {"CompilerNotFound", "Process", "Compiler", "CompilerStdErrNotEmpty",
                  "ReadingTargets", "SuiteDoesNotExist", "OutDirIsNotDir"}

\* What compile reads from its environment.
\*   out_dir      kind of the out_dir path before the call
\*   create_ok    whether fs::create_dir would succeed
\*   elm_json     suite/elm.json exists
\*   targets      "absent": targets.txt is not there; "open_fail": it is there
\*                but File::open fails; "read_fail": read_to_string fails;
\*                "ok": it is read
\*   which_ok     which::which finds the compiler
\*   canon_ok     fs::canonicalize succeeds on an existing out_dir
\*   spawn_ok     Command::output launches the process
\*   status_ok    exit status is success
\*   stderr_empty the captured stderr is empty
CompileInputs ==
    [out_dir : {"absent", "dir", "file"}, create_ok : BOOLEAN, elm_json : BOOLEAN,
     targets : {"absent", "open_fail", "read_fail", "ok"}, which_ok : BOOLEAN,
     canon_ok : BOOLEAN, spawn_ok : BOOLEAN, status_ok : BOOLEAN,
     stderr_empty : BOOLEAN]

CompileResult(r, inv, tg, k) == [res |-> r, invoked |-> inv, root_files |-> tg, out_dir |-> k]

\* Kind of out_dir after lines 66-70 (the result of create_dir is discarded).
after_create(in) ==
    IF in.out_dir = "absent" THEN (IF in.create_ok THEN "dir" ELSE "absent")
    ELSE in.out_dir

\* root_files of lines 74-82: "none" when not computed, "error" when the
\* read fails, "targets.txt" or "Main.elm" otherwise.
root_files(in) ==
    CASE in.targets = "ok" -> "targets.txt"
      [] in.targets = "read_fail" -> "error"
      [] OTHER -> "Main.elm"

\* Mutant: the path of out_dir is passed on as it is, not canonicalized.
output_path_unchecked(in, k) == TRUE

\* Lines 94-98: fs::canonicalize(out_dir) succeeds; it fails on a path that
\* does not exist.
output_path_ok(in, k) == k = "dir" /\ in.canon_ok

\* Mutant: the stderr test of lines 108-110 comes first.
compile_validate_stderr_first(in) ==
    IF ~in.stderr_empty THEN "CompilerStdErrNotEmpty"
    ELSE IF ~in.status_ok THEN "Compiler"
    ELSE "Ok"

\* Lines 104-112: what compile makes of the output of a compiler that was
\* launched.
compile_validate(in) ==
    IF ~in.status_ok THEN "Compiler"
    ELSE IF ~in.stderr_empty THEN "CompilerStdErrNotEmpty"
    ELSE "Ok"

\* Mutant: the elm.json test of lines 71-73 is missing.
compile_no_elm_json(in) ==
    LET k == after_create(in) IN
    IF in.out_dir = "file" THEN CompileResult("OutDirIsNotDir", FALSE, "none", k)
    ELSE IF root_files(in) = "error" THEN CompileResult("ReadingTargets", FALSE, "error", k)
    ELSE IF ~in.which_ok THEN CompileResult("CompilerNotFound", FALSE, root_files(in), k)
    ELSE IF ~(k = "dir" /\ in.canon_ok) THEN CompileResult("Process", FALSE, root_files(in), k)
    ELSE IF ~in.spawn_ok THEN CompileResult("Process", TRUE, root_files(in), k)
    ELSE IF ~in.status_ok THEN CompileResult("Compiler", TRUE, root_files(in), k)
    ELSE IF ~in.stderr_empty THEN CompileResult("CompilerStdErrNotEmpty", TRUE, root_files(in), k)
    ELSE CompileResult("Ok", TRUE, root_files(in), k)

\* invoked: Command::output of line 102 is reached.
compile(in) ==
    LET k == after_create(in) IN
    IF in.out_dir = "file" THEN CompileResult("OutDirIsNotDir", FALSE, "none", k)
    ELSE IF ~in.elm_json THEN CompileResult("SuiteDoesNotExist", FALSE, "none", k)
    ELSE IF root_files(in) = "error" THEN CompileResult("ReadingTargets", FALSE, "error", k)
    ELSE IF ~in.which_ok THEN CompileResult("CompilerNotFound", FALSE, root_files(in), k)
    ELSE IF ~output_path_ok(in, k) THEN CompileResult("Process", FALSE, root_files(in), k)
    ELSE IF ~in.spawn_ok THEN CompileResult("Process", TRUE, root_files(in), k)
    ELSE CompileResult(compile_validate(in), TRUE, root_files(in), k)

\* ----------------------------------------------------------------- run
RunErrors == {"NodeNotFound", "SuiteDoesNotExist", "NodeProcess", "WritingHarness",
              "CopyingExpectedOutput", "Runtime", "CannotFindExpectedOutput",
              "ExpectedOutputNotUtf8", "OutputProduced"}

\* The closure possible_stderr of lines 162-167, as a sequence of pieces.
possible_stderr(mode) ==
    <<"Compiled in ", mode,
      " mode. Follow the advice at https://elm-lang.org/0.19.1/optimize for better performance and smaller assets.\n">>

StderrSamples ==
    {<<>>, possible_stderr("DEV"), possible_stderr("DEBUG"), possible_stderr("PROD"),
     <<"Compiled in ", "DEV">>, <<"warning">>,
     <<"Compiled in ", "DEV",
       " mode. Follow the advice at https://elm-lang.org/0.19.1/optimize for better performance and smaller assets.">>}

\* What run reads from its environment.
RunInputs ==
    [elm_json : BOOLEAN, which_ok : BOOLEAN,
     output_json : {"open_fail", "read_fail", "not_utf8", "ok"},
     write_ok : BOOLEAN, spawn_ok : BOOLEAN, status_ok : BOOLEAN,
     stdout_empty : BOOLEAN, stderr : StderrSamples]

RunResult(r, h, l) == [res |-> r, harness |-> h, launched |-> l]

\* Lines 116-130: the first precondition that fails, "Ok" when none does.
run_precondition(in) ==
    IF ~in.elm_json THEN "SuiteDoesNotExist"
    ELSE IF ~in.which_ok THEN "NodeNotFound"
    ELSE IF in.output_json = "open_fail" THEN "CannotFindExpectedOutput"
    ELSE IF in.output_json = "read_fail" THEN "CopyingExpectedOutput"
    ELSE IF in.output_json = "not_utf8" THEN "ExpectedOutputNotUtf8"
    ELSE "Ok"

\* Mutant: only the DEV notice is accepted on stderr.
run_validate_dev_only(in) ==
    IF ~in.status_ok THEN "Runtime"
    ELSE IF ~in.stdout_empty THEN "OutputProduced"
    ELSE IF in.stderr # <<>> /\ in.stderr # possible_stderr("DEV") THEN "OutputProduced"
    ELSE "Ok"

\* Mutant: the stdout test of lines 159-161 is missing.
run_validate_no_stdout(in) ==
    IF ~in.status_ok THEN "Runtime"
    ELSE IF in.stderr # <<>> /\ in.stderr # possible_stderr("DEV")
            /\ in.stderr # possible_stderr("DEBUG")
         THEN "OutputProduced"
    ELSE "Ok"

\* Lines 156-175: what run makes of the output of a runtime that was
\* launched.
run_validate(in) ==
    IF ~in.status_ok THEN "Runtime"
    ELSE IF ~in.stdout_empty THEN "OutputProduced"
    ELSE IF in.stderr # <<>> /\ in.stderr # possible_stderr("DEV")
            /\ in.stderr # possible_stderr("DEBUG")
         THEN "OutputProduced"
    ELSE "Ok"

\* Mutant: the harness is written before the expected output is read.
run_harness_first(in) ==
    IF ~in.elm_json THEN RunResult("SuiteDoesNotExist", FALSE, FALSE)
    ELSE IF ~in.which_ok THEN RunResult("NodeNotFound", FALSE, FALSE)
    ELSE IF ~in.write_ok THEN RunResult("WritingHarness", FALSE, FALSE)
    ELSE IF run_precondition(in) # "Ok" THEN RunResult(run_precondition(in), TRUE, FALSE)
    ELSE IF ~in.spawn_ok THEN RunResult("NodeProcess", TRUE, FALSE)
    ELSE RunResult(run_validate(in), TRUE, TRUE)

\* harness: fs::write has written harness.js; launched: the runtime
\* process was started.
run(in) ==
    IF run_precondition(in) # "Ok" THEN RunResult(run_precondition(in), FALSE, FALSE)
    ELSE IF ~in.write_ok THEN RunResult("WritingHarness", FALSE, FALSE)
    ELSE IF ~in.spawn_ok THEN RunResult("NodeProcess", TRUE, FALSE)
    ELSE RunResult(run_validate(in), TRUE, TRUE)

\* --------------------------------------------------- CompileAndRunError
\* The value compile_and_run returns: tag "Ok" is Ok(()), every other tag
\* is the Err variant of that name.
Outcome(tag, allowed, reason, od) ==
    [tag |-> tag, allowed |-> allowed, reason |-> reason, outdir |-> od]

NoRes == Outcome("None", FALSE, "-", NoOutDir)

Ok == Outcome("Ok", FALSE, "-", NoOutDir)

SuiteNotExist == Outcome("SuiteNotExist", FALSE, "-", NoOutDir)

SuiteNotDir == Outcome("SuiteNotDir", FALSE, "-", NoOutDir)

SuiteNotElm == Outcome("SuiteNotElm", FALSE, "-", NoOutDir)

CompileFailure(allowed, reason) == Outcome("CompileFailure", allowed, reason, NoOutDir)

RunFailure(allowed, od, reason) == Outcome("RunFailure", allowed, reason, od)

ExpectedFailure == Outcome("ExpectedFailure", FALSE, "-", NoOutDir)

\* ------------------------------------------------------ compile_and_run
\* What the suite path is on disk when compile_and_run looks at it.
SuiteKinds == {"absent", "file", "dir", "elm"}

\* Path::exists, Path::is_dir and join("elm.json").exists on the suite.
exists(kind) == kind # "absent"

is_dir(kind) == kind \in {"dir", "elm"}

has_elm_json(kind) == kind = "elm"

\* Mutant: the elm.json test comes first.
validate_elm_first(kind) ==
    IF ~has_elm_json(kind) THEN SuiteNotElm
    ELSE IF ~exists(kind) THEN SuiteNotExist
    ELSE IF ~is_dir(kind) THEN SuiteNotDir
    ELSE NoRes

\* Lines 210-218: the error the validation returns, "None" when it passes.
validate(kind) ==
    IF ~exists(kind) THEN SuiteNotExist
    ELSE IF ~is_dir(kind) THEN SuiteNotDir
    ELSE IF ~has_elm_json(kind) THEN SuiteNotElm
    ELSE NoRes

\* same_file::is_same_file on two paths that exist.
is_same_file(a, b) == a = b

\* Lines 219-232. The suite has passed validation, so it exists; another
\* suite path of the configuration is taken to exist.
failure_allowed(suite, allowed) == \E p \in allowed : is_same_file(suite, p)

\* Mutant: success is reported whatever the allowed flag is.
classify_ok(allowed) == Outcome("Ok", FALSE, "-", NoOutDir)

\* Lines 275-279.
classify(allowed) == IF allowed THEN ExpectedFailure ELSE Ok

\* The environment of the compile and run steps inside the pipeline: the
\* suite has just been validated and out_dir is what the disk holds. A
\* direct call is explored under every environment; the batch, whose
\* history grows with every suite, under the environments in which at most
\* the exit status of the child process is bad.
Quiet(in) == in.which_ok /\ in.spawn_ok

PipelineCompileInputs(t, kind) ==
    {in \in CompileInputs :
        /\ in.out_dir = kind /\ in.elm_json
        /\ t = "RunSuites" =>
             Quiet(in) /\ in.create_ok /\ in.canon_ok /\ in.targets = "absent" /\ in.stderr_empty}

PipelineRunInputs(t) ==
    {in \in RunInputs :
        /\ in.elm_json
        /\ t = "RunSuites" =>
             Quiet(in) /\ in.output_json = "ok" /\ in.write_ok /\ in.stdout_empty /\ in.stderr = <<>>}

\* The locals of a call of compile_and_run that has just begun.
NewCall(suite) ==
    [suite |-> suite, kind |-> "-", failure_allowed |-> FALSE, elm_stuff |-> "-"]

Mark(stages) == hist' = [hist EXCEPT ![idx].stages = @ \cup stages]

\* compile_and_run returns r; its local out_dir, holding od, goes out of
\* scope.
Return(r, od, d, stages) ==
    /\ res' = r
    /\ out_dir' = NoOutDir
    /\ disk' = drop(od, d)
    /\ pc' = "returned"
    /\ hist' = [hist EXCEPT ![idx].stages = @ \cup stages \cup {"returned"}, ![idx].res = r]

\* Lines 210-232.
Validate ==
    /\ pc = "validate"
    /\ \E kind \in SuiteKinds :
        IF validate(kind) # NoRes
        THEN /\ Return(validate(kind), out_dir, disk, {"validate"})
             /\ cur' = [cur EXCEPT !.kind = kind]
        ELSE /\ cur' = [cur EXCEPT !.kind = kind, !.failure_allowed =
                            failure_allowed(cur.suite, instructions.allowed_failures)]
             /\ pc' = "clear"
             /\ Mark({"validate", "valid"})
             /\ UNCHANGED <<res, out_dir, disk>>
    /\ UNCHANGED <<config, idx, output, tmp_count, fnvars>>

\* Mutant: the or_else of lines 235-241 is missing, NotFound panics too.
after_clear_strict(r) == IF r = "removed" THEN "acquire" ELSE "aborted"

\* Lines 235-242: where compile_and_run goes after remove_dir_all gave r.
after_clear(r) == IF r = "error" THEN "aborted" ELSE "acquire"

\* Lines 233-243: remove_dir_all on suite/elm-stuff; an error other than
\* NotFound panics.
\* cur.elm_stuff holds the Result of remove_dir_all until the expect of
\* line 242 has consumed it.
ClearElmStuff ==
    /\ pc = "clear"
    /\ IF instructions.clear_elm_stuff
       THEN \E r \in {"removed", "NotFound", "error"} :
              /\ pc' = after_clear(r)
              /\ cur' = [cur EXCEPT !.elm_stuff = r]
              /\ Mark({"clear"})
       ELSE pc' = "acquire" /\ UNCHANGED <<hist, cur>>
    /\ UNCHANGED <<config, idx, out_dir, res, output, disk, tmp_count, fnvars>>

\* Mutant: one directory name serves every call.
tempdir_shared(n) == 1

\* Lines 248-251: the path of the directory tempdir() creates, n
\* directories having been created before. tempfile draws a random name and
\* creates the directory anew; names are taken as never drawn twice.
tempdir(n) == n + 1

\* Lines 245-253: tempdir() makes a directory under a name not in use; a
\* failure to make it panics.
Acquire ==
    /\ pc = "acquire"
    /\ IF provided_out_dir
       THEN /\ out_dir' = Provided(ProvidedPath)
            /\ pc' = "compile"
            /\ hist' = [hist EXCEPT ![idx].stages = @ \cup {"acquire"},
                                    ![idx].dir = Provided(ProvidedPath)]
            /\ UNCHANGED <<disk, tmp_count>>
       ELSE \E ok \in BOOLEAN :
              IF ok
              THEN /\ tmp_count' = tmp_count + 1
                   /\ out_dir' = Tempory(tempdir(tmp_count))
                   /\ disk' = [disk EXCEPT ![tempdir(tmp_count)] = "dir"]
                   /\ pc' = "compile"
                   /\ hist' = [hist EXCEPT ![idx].stages = @ \cup {"acquire"},
                                           ![idx].dir = Tempory(tempdir(tmp_count))]
              ELSE /\ pc' = "aborted"
                   /\ UNCHANGED <<out_dir, disk, tmp_count, hist>>
    /\ cur' = [cur EXCEPT !.elm_stuff = "-"]
    /\ UNCHANGED <<config, idx, res, output, fnvars>>

\* Mutant: the `?` of line 260 is missing, the pipeline goes on to run.
after_compile_ignore(r) == "run"

\* Where compile_and_run goes after compile returned r (the `?` of line 260).
after_compile(r) == IF r.res = "Ok" THEN "run" ELSE "returned"

\* Lines 255-260.
Compile ==
    /\ pc = "compile"
    /\ \E in \in PipelineCompileInputs(task, disk[path(out_dir)]) :
        LET r == compile(in)
            d == [disk EXCEPT ![path(out_dir)] = r.out_dir]
            stages == {"compile"} \cup (IF r.invoked THEN {"compiler"} ELSE {})
                                  \cup (IF r.res = "Ok" THEN {"compile_ok"} ELSE {})
        IN IF after_compile(r) = "run"
           THEN /\ pc' = "run"
                /\ disk' = d
                /\ Mark(stages)
                /\ UNCHANGED <<res, out_dir>>
           ELSE Return(CompileFailure(cur.failure_allowed, r.res), out_dir, d, stages)
    /\ UNCHANGED <<config, idx, cur, output, tmp_count, fnvars>>

\* Lines 262-279: on a run failure the closure persists out_dir and moves
\* it into the error; otherwise out_dir is dropped with the closure.
Run ==
    /\ pc = "run"
    /\ \E in \in PipelineRunInputs(task) :
        LET r == run(in)
            stages == {"run"} \cup (IF r.harness THEN {"harness"} ELSE {})
                              \cup (IF r.launched THEN {"node"} ELSE {})
                              \cup (IF r.res = "Ok" THEN {"run_ok"} ELSE {})
        IN IF r.res # "Ok"
           THEN LET od == persist(out_dir)
                IN Return(RunFailure(cur.failure_allowed, od, r.res), od, disk, stages)
           ELSE Return(classify(cur.failure_allowed), out_dir, disk, stages)
    /\ UNCHANGED <<config, idx, cur, output, tmp_count, fnvars>>

\* ----------------------------------------------- compile_and_run_suites
\* Mutant: ExpectedFailure is listed among the outcomes that do not fail.
failed_expected_passes(r) ==
    IF r.tag = "CompileFailure" /\ r.allowed THEN FALSE
    ELSE IF r.tag = "RunFailure" /\ r.allowed THEN FALSE
    ELSE IF r.tag = "Ok" \/ r.tag = "ExpectedFailure" THEN FALSE
    ELSE TRUE

\* Mutant: only the outcomes of the pipeline can fail, a suite that does
\* not pass validation is skipped over.
failed_validation_passes(r) ==
    IF r.tag = "CompileFailure" /\ r.allowed THEN FALSE
    ELSE IF r.tag = "RunFailure" /\ r.allowed THEN FALSE
    ELSE IF r.tag \in {"Ok", "SuiteNotExist", "SuiteNotDir", "SuiteNotElm"} THEN FALSE
    ELSE TRUE

\* Lines 303-308.
failed(r) ==
    IF r.tag = "CompileFailure" /\ r.allowed THEN FALSE
    ELSE IF r.tag = "RunFailure" /\ r.allowed THEN FALSE
    ELSE IF r.tag = "Ok" THEN FALSE
    ELSE TRUE

\* Mutant: the iterator is never cut short.
take_while_never_stops(fail_fast, f) == TRUE

\* Mutant: the fail_fast flag is not consulted.
take_while_ignores_flag(fail_fast, f) == ~f

\* Line 311: the predicate of take_while.
take_while_pred(fail_fast, f) == ~(fail_fast /\ f)

\* The item the final map yields (line 312).
item(i, suite, r) == [index |-> i, suite |-> suite, res |-> r]

\* next() on the iterator reaches the input iterator: the Map closure
\* starts compile_and_run(&suite, None, instructions) on the next item, or
\* the input is exhausted.
NextSuite ==
    /\ pc = "next"
    /\ IF idx < Len(suites)
       THEN /\ idx' = idx + 1
            /\ cur' = NewCall(suites[idx + 1])
            /\ pc' = "validate"
       ELSE /\ pc' = "done"
            /\ UNCHANGED <<idx, cur>>
    /\ UNCHANGED <<config, out_dir, res, output, disk, tmp_count, hist, fnvars>>

\* Lines 303-312: compile_and_run has returned; TakeWhile yields the item
\* when the predicate holds, and otherwise ends the iteration for good
\* without yielding it.
TakeWhile ==
    /\ pc = "returned"
    /\ task = "RunSuites"
    /\ IF take_while_pred(instructions.fail_fast, failed(res))
       THEN /\ output' = Append(output, item(idx, cur.suite, res))
            /\ pc' = "next"
       ELSE /\ pc' = "done"
            /\ UNCHANGED output
    /\ UNCHANGED <<config, idx, cur, out_dir, res, disk, tmp_count, hist, fnvars>>

\* --------------------------------------- a direct call of compile_and_run
\* compile_and_run(suite, provided_out_dir, instructions) is called once.
CallSingle ==
    /\ pc = "call"
    /\ idx' = 1
    /\ cur' = NewCall(suites[1])
    /\ pc' = "validate"
    /\ UNCHANGED <<config, out_dir, res, output, disk, tmp_count, hist, fnvars>>

\* The caller receives the result.
ReturnSingle ==
    /\ pc = "returned"
    /\ task = "RunSuite"
    /\ output' = <<item(idx, cur.suite, res)>>
    /\ pc' = "done"
    /\ UNCHANGED <<config, idx, cur, out_dir, res, disk, tmp_count, hist, fnvars>>

\* ------------------------------------ compile as a function of its inputs
NoCompile == [res |-> "None", invoked |-> FALSE, root_files |-> "none", out_dir |-> "absent"]

IdleIn == CHOOSE in \in CompileInputs : TRUE

IdleCompile == cin = IdleIn /\ cout = NoCompile

ApplyCompile ==
    /\ pc = "compile_fn"
    /\ cout = NoCompile
    /\ cout' = compile(cin)
    /\ pc' = "done"
    /\ UNCHANGED <<config, batchvars, cin, rin, rout, exit_code, lib_res>>

\* ---------------------------------------- run as a function of its inputs
NoRun == [res |-> "None", harness |-> FALSE, launched |-> FALSE]

IdleRunIn == CHOOSE in \in RunInputs : TRUE

IdleRun == rin = IdleRunIn /\ rout = NoRun

ApplyRun ==
    /\ pc = "run_fn"
    /\ rout = NoRun
    /\ rout' = run(rin)
    /\ pc' = "done"
    /\ UNCHANGED <<config, batchvars, cin, cout, rin, exit_code, lib_res>>

\* ------------------------------------------------------ src/src/main.rs
IdleMain == exit_code = -1 /\ lib_res = <<>>

\* The status of a process whose main thread panicked.
PanicStatus == 101

\* What lib::run_suite can return (main.rs lines 114-155): Ok(()),
\* Err(lib::Error::Compiler(e)) for each variant e of the match, or
\* Err(lib::Error::Runner(_)).
LibResults ==
    {[tag |-> "Ok", err |-> "-"], [tag |-> "Runner", err |-> "-"]}
        \cup {[tag |-> "Compiler", err |-> e] : e \in CompileErrors}

\* Mutant: the runner arm returns the status of the compiler arm.
run_suite_same_status(r, provided) ==
    IF r.tag = "Ok" THEN 0
    ELSE IF r.tag = "Compiler" /\ r.err = "OutDirIsNotDir" /\ ~provided THEN PanicStatus
    ELSE 1

\* run_suite of main.rs, lines 107-157, followed by the map_or(0, get) of
\* line 220: 0 stands for None; the panic of line 144 ends the process
\* with PanicStatus.
run_suite(r, provided) ==
    IF r.tag = "Ok" THEN 0
    ELSE IF r.tag = "Compiler"
         THEN (IF r.err = "OutDirIsNotDir" /\ ~provided THEN PanicStatus ELSE 1)
    ELSE 2

\* run_app, CliTask::DumpConfig (lines 180-186).
MainDumpConfig ==
    /\ pc = "main"
    /\ task = "DumpConfig"
    /\ exit_code' = 0
    /\ pc' = "exit"
    /\ UNCHANGED <<config, batchvars, cin, cout, rin, rout, lib_res>>

\* run_app, CliTask::RunSuite (lines 187-196).
MainRunSuite ==
    /\ pc = "main"
    /\ task = "RunSuite"
    /\ \E r \in LibResults :
        /\ lib_res' = <<r>>
        /\ exit_code' = run_suite(r, provided_out_dir)
        /\ pc' = (IF run_suite(r, provided_out_dir) = PanicStatus THEN "panicked" ELSE "exit")
    /\ UNCHANGED <<config, batchvars, cin, cout, rin, rout>>

\* run_app, CliTask::RunSuites: find_suites of lines 198-199, whose error
\* panics through expect.
MainFindSuites ==
    /\ pc = "main"
    /\ task = "RunSuites"
    /\ \E ok \in BOOLEAN :
        IF ok
        THEN pc' = "iterate" /\ UNCHANGED exit_code
        ELSE pc' = "panicked" /\ exit_code' = PanicStatus
    /\ UNCHANGED <<config, batchvars, cin, cout, rin, rout, lib_res>>

\* One turn of the loop of iterate_till_some (lines 159-170) over
\* run_suite(suite, None, &config) (line 214).
MainIterate ==
    /\ pc = "iterate"
    /\ IF Len(lib_res) < Len(suites)
       THEN \E r \in LibResults :
              /\ lib_res' = Append(lib_res, r)
              /\ IF run_suite(r, FALSE) # 0
                 THEN /\ exit_code' = run_suite(r, FALSE)
                      /\ pc' = (IF run_suite(r, FALSE) = PanicStatus THEN "panicked" ELSE "exit")
                 ELSE UNCHANGED <<exit_code, pc>>
       ELSE /\ exit_code' = 0
            /\ pc' = "exit"
            /\ UNCHANGED lib_res
    /\ UNCHANGED <<config, batchvars, cin, cout, rin, rout>>

\* ------------------------------------------------------- specification
Instructions ==
    [fail_fast : BOOLEAN, clear_elm_stuff : BOOLEAN, allowed_failures : SUBSET SuitePaths]

SuiteSeqs == UNION {[1..n -> SuitePaths] : n \in 0..MaxSuites}

NoHist == [stages |-> {}, dir |-> NoOutDir, res |-> NoRes]

InitCommon ==
    /\ idx = 0
    /\ cur = NewCall("s1")
    /\ out_dir = NoOutDir
    /\ res = NoRes
    /\ output = <<>>
    /\ tmp_count = 0
    /\ hist = [i \in 1..(MaxSuites + 1) |-> NoHist]

Init ==
    /\ InitCommon
    /\ instructions \in Instructions
    /\ IdleCompile
    /\ IdleRun
    /\ IdleMain
    /\ \/ /\ task = "RunSuites"
          /\ suites \in SuiteSeqs
          /\ provided_out_dir = FALSE
          /\ disk = [p \in OutPaths |-> "absent"]
          /\ pc = "next"
       \/ /\ task = "RunSuite"
          /\ suites \in [1..1 -> SuitePaths]
          /\ provided_out_dir \in BOOLEAN
          /\ \E k \in {"absent", "dir", "file"} :
                disk = [p \in OutPaths |-> IF p = ProvidedPath /\ provided_out_dir THEN k ELSE "absent"]
          /\ pc = "call"

Next ==
    \/ NextSuite
    \/ CallSingle
    \/ Validate
    \/ ClearElmStuff
    \/ Acquire
    \/ Compile
    \/ Run
    \/ TakeWhile
    \/ ReturnSingle

Spec == Init /\ [][Next]_vars

InitCompile ==
    /\ InitCommon
    /\ task = "compile"
    /\ suites = <<>>
    /\ provided_out_dir = FALSE
    /\ instructions = [fail_fast |-> FALSE, clear_elm_stuff |-> FALSE, allowed_failures |-> {}]
    /\ disk = [p \in OutPaths |-> "absent"]
    /\ pc = "compile_fn"
    /\ cin \in CompileInputs
    /\ cout = NoCompile
    /\ IdleRun
    /\ IdleMain

NextCompile == ApplyCompile

SpecCompile == InitCompile /\ [][NextCompile]_vars

IdleBatch ==
    /\ InitCommon
    /\ suites = <<>>
    /\ provided_out_dir = FALSE
    /\ instructions = [fail_fast |-> FALSE, clear_elm_stuff |-> FALSE, allowed_failures |-> {}]
    /\ disk = [p \in OutPaths |-> "absent"]

InitRun ==
    /\ IdleBatch
    /\ task = "run"
    /\ pc = "run_fn"
    /\ rin \in RunInputs
    /\ rout = NoRun
    /\ IdleCompile
    /\ IdleMain

NextRun == ApplyRun

InitMain ==
    /\ InitCommon
    /\ instructions = [fail_fast |-> FALSE, clear_elm_stuff |-> FALSE, allowed_failures |-> {}]
    /\ disk = [p \in OutPaths |-> "absent"]
    /\ pc = "main"
    /\ \/ /\ task = "DumpConfig"
          /\ suites = <<>>
          /\ provided_out_dir = FALSE
       \/ /\ task = "RunSuite"
          /\ suites \in [1..1 -> SuitePaths]
          /\ provided_out_dir \in BOOLEAN
       \/ /\ task = "RunSuites"
          /\ suites \in SuiteSeqs
          /\ provided_out_dir = FALSE
    /\ IdleCompile
    /\ IdleRun
    /\ IdleMain

NextMain ==
    \/ MainDumpConfig
    \/ MainRunSuite
    \/ MainFindSuites
    \/ MainIterate

SpecMain == InitMain /\ [][NextMain]_vars

SpecRun == InitRun /\ [][NextRun]_vars

\* ================================================================ claims
Batch == task = "RunSuites"

Calls == 1..(MaxSuites + 1)

FailFast == Batch /\ instructions.fail_fast

\* C1 (as stated): with fail_fast, once the outcome of suite idx is a
\* non-allowed CompileFailure or RunFailure and the iterator has dealt with
\* it, the iteration is over and the pair of that suite is the last item of
\* the output.
C1_FailingPairIsLast ==
    (/\ FailFast
     /\ pc \in {"next", "done"}
     /\ idx >= 1
     /\ hist[idx].res.tag \in {"CompileFailure", "RunFailure"}
     /\ ~hist[idx].res.allowed)
    => /\ pc = "done"
       /\ output # <<>>
       /\ output[Len(output)] = item(idx, suites[idx], hist[idx].res)

\* C2: with fail_fast, the step that follows the return of a failed
\* outcome ends the iteration; nothing happens once the iteration has
\* ended; the iteration ends only between two suites, when no call of
\* compile_and_run is running; and no suite after the current one has gone
\* through any stage.
C2_Step ==
    FailFast =>
        /\ (pc = "returned" /\ failed(res)) => (pc' = "done" /\ idx' = idx)
        /\ pc = "done" => UNCHANGED vars
        /\ (pc' = "done" /\ pc # "done") =>
              /\ pc \in {"returned", "next"}
              /\ out_dir = NoOutDir
              /\ idx >= 1 => "returned" \in hist[idx].stages

C2_Untouched == FailFast => \A j \in Calls : j > idx => hist[j] = NoHist

C2_NoSuiteAfterFailure == [][C2_Step]_vars /\ []C2_Untouched

C2_Witness ==
    /\ FailFast
    /\ pc = "done"
    /\ failed(res)
    /\ idx < Len(suites)
    /\ hist[idx + 1] = NoHist

\* C3: the output is a prefix of the input, in input order, item k pairing
\* suite k with what the k-th call returned; earlier calls have returned
\* and later ones have not started; without fail_fast every finished call
\* has its item, and the whole input has one when the iteration ends.
C3_OrderedPrefix ==
    Batch =>
        /\ Len(output) <= idx
        /\ idx <= Len(suites)
        /\ \A k \in 1..Len(output) :
              /\ hist[k].res # NoRes
              /\ output[k] = item(k, suites[k], hist[k].res)
        /\ \A i \in Calls :
              /\ i < idx => "returned" \in hist[i].stages
              /\ i > idx => hist[i] = NoHist
        /\ ~instructions.fail_fast =>
              /\ pc = "next" => Len(output) = idx
              /\ pc = "done" => Len(output) = Len(suites)

C3_Witness ==
    /\ Batch
    /\ ~instructions.fail_fast
    /\ pc = "done"
    /\ Len(output) = MaxSuites
    /\ failed(output[1].res)
    /\ ~failed(output[2].res)

\* C4 (as stated): with fail_fast, once the iterator has dealt with an
\* ExpectedFailure outcome, its pair is the last item of the output and the
\* iteration has not ended before the input was exhausted.
C4_ExpectedFailureGoesOn ==
    (/\ FailFast
     /\ pc \in {"next", "done"}
     /\ idx >= 1
     /\ hist[idx].res = ExpectedFailure)
    => /\ output # <<>>
       /\ output[Len(output)].index = idx
       /\ pc = "done" => idx = Len(suites)

\* C4 (amended): an ExpectedFailure outcome counts as failed. With
\* fail_fast the iteration ends right after it and no later suite is
\* attempted; without fail_fast its pair is emitted and the iteration goes
\* on to the end of the input.
C4_ExpectedFailureStops ==
    \A i \in Calls :
        (Batch /\ hist[i].res = ExpectedFailure) =>
            IF instructions.fail_fast
            THEN /\ i = idx
                 /\ pc \in {"returned", "done"}
                 /\ \A j \in Calls : j > i => hist[j] = NoHist
            ELSE /\ (i < idx \/ pc \in {"next", "done"}) =>
                        (Len(output) >= i /\ output[i].res = ExpectedFailure)
                 /\ pc = "done" => idx = Len(suites)

C4_Witness ==
    /\ FailFast
    /\ pc = "done"
    /\ res = ExpectedFailure
    /\ idx < Len(suites)

\* C5: a call that reached the run step has had its compile step return
\* success; a call that returned CompileFailure never reached run, wrote no
\* harness and launched no runtime; a compile step that did not succeed
\* ends the call with CompileFailure; compile is not entered after run.
C5_CompileBeforeRun ==
    /\ \A i \in Calls :
        LET st == hist[i].stages IN
        /\ "run" \in st => "compile_ok" \in st
        /\ hist[i].res.tag = "CompileFailure" =>
              /\ "compile" \in st
              /\ st \cap {"compile_ok", "run", "harness", "node"} = {}
        /\ ("compile" \in st /\ "compile_ok" \notin st) =>
              /\ hist[i].res.tag = "CompileFailure"
              /\ "run" \notin st
    /\ pc = "compile" => hist[idx].stages \cap {"compile", "run"} = {}
    /\ pc = "run" => "compile_ok" \in hist[idx].stages

C5_Witness ==
    \E i \in Calls :
        /\ hist[i].res.tag = "CompileFailure"
        /\ "compiler" \in hist[i].stages
        /\ "returned" \in hist[i].stages

\* C6: a call whose compile and run steps both succeeded returns
\* ExpectedFailure when its suite is in the allowed failures and Ok
\* otherwise; Ok and ExpectedFailure are returned in no other case.
C6_Classification ==
    \A i \in Calls :
        LET h == hist[i]
            allowed == suites[i] \in instructions.allowed_failures
        IN "returned" \in h.stages =>
            /\ {"compile_ok", "run_ok"} \subseteq h.stages =>
                  h.res = (IF allowed THEN ExpectedFailure ELSE Ok)
            /\ h.res.tag \in {"Ok", "ExpectedFailure"} =>
                  {"compile_ok", "run_ok"} \subseteq h.stages
            /\ h.res.tag = "Ok" => ~allowed
            /\ h.res.tag = "ExpectedFailure" => allowed

C6_Witness ==
    \E i \in Calls : hist[i].res = ExpectedFailure /\ "run_ok" \in hist[i].stages

\* C7: on every OutDir value the program holds, persist keeps the path,
\* is idempotent, turns Tempory into Persistent and leaves Provided and
\* Persistent as they are; the OutDir of a RunFailure is the acquired one
\* persisted, and its directory is still on disk.
OutDirs ==
    ({out_dir} \cup {hist[i].dir : i \in Calls} \cup {hist[i].res.outdir : i \in Calls})
        \ {NoOutDir}

C7_PersistIdempotent ==
    /\ \A od \in OutDirs :
        /\ path(persist(od)) = path(od)
        /\ persist(persist(od)) = persist(od)
        /\ od.state = "Tempory" => persist(od) = Persistent(path(od))
        /\ od.state \in {"Provided", "Persistent"} => persist(od) = od
    /\ \A i \in Calls :
        hist[i].res.tag = "RunFailure" =>
            /\ path(hist[i].res.outdir) = path(hist[i].dir)
            /\ hist[i].res.outdir.state =
                  (IF hist[i].dir.state = "Provided" THEN "Provided" ELSE "Persistent")
            /\ disk[path(hist[i].dir)] = "dir"

C7_Witness ==
    \E i \in Calls :
        /\ hist[i].res.tag = "RunFailure"
        /\ hist[i].dir.state = "Tempory"
        /\ hist[i].res.outdir = Persistent(path(hist[i].dir))

\* C8: in every step the OutDir of the running call either stays, comes
\* into being at the acquisition, goes away with the call, or goes from
\* Tempory to Persistent with the same path; the last happens only in the
\* step in which run returns a failure. The local never holds Persistent,
\* and a returned value never changes afterwards.
C8_Step ==
    LET before == out_dir
        after == IF pc' = "returned" /\ res'.tag = "RunFailure" THEN res'.outdir ELSE out_dir'
    IN /\ before.state # "Persistent"
       /\ before.state = "Provided" => after \in {before, NoOutDir}
       /\ before.state = "Tempory" =>
             /\ after \in {before, NoOutDir, Persistent(path(before))}
             /\ after.state = "Persistent" =>
                   /\ pc = "run"
                   /\ "run" \in hist'[idx].stages
                   /\ "run_ok" \notin hist'[idx].stages
       /\ before.state = "None" =>
             /\ after.state \in {"None", "Provided", "Tempory"}
             /\ after # before => pc = "acquire"
       /\ \A i \in Calls : hist[i].res # NoRes => hist'[i].res = hist[i].res

C8_OutDirTransitions == [][C8_Step]_vars

C8_Witness ==
    /\ pc = "returned"
    /\ res.tag = "RunFailure"
    /\ res.outdir.state = "Persistent"
    /\ hist[idx].dir = Tempory(path(res.outdir))

\* C9: when a call has returned Ok, ExpectedFailure or CompileFailure the
\* temporary directory it acquired is gone from the disk; when it has
\* returned RunFailure the directory at the path of the outcome is there;
\* a provided directory that is there is never removed or replaced.
C9_Returned ==
    \A i \in Calls :
        LET h == hist[i] IN
        "returned" \in h.stages =>
            /\ (h.dir.state = "Tempory" /\ h.res.tag \in {"Ok", "ExpectedFailure", "CompileFailure"})
                  => disk[path(h.dir)] = "absent"
            /\ h.res.tag = "RunFailure" => disk[path(h.res.outdir)] = "dir"

C9_ProvidedStep ==
    disk[ProvidedPath] # "absent" => disk'[ProvidedPath] = disk[ProvidedPath]

C9_OutDirLifetime == []C9_Returned /\ [][C9_ProvidedStep]_vars

C9_Witness ==
    \E i \in Calls :
        /\ hist[i].res.tag \in {"Ok", "CompileFailure"}
        /\ hist[i].dir.state = "Tempory"
        /\ disk[path(hist[i].dir)] = "absent"

\* C10 (as stated): for a suite without elm.json, whatever out_dir is,
\* compile returns SuiteDoesNotExist and does not invoke the compiler.
C10_AlwaysSuiteDoesNotExist ==
    (cout # NoCompile /\ ~cin.elm_json) =>
        (cout.res = "SuiteDoesNotExist" /\ ~cout.invoked)

\* C10 (amended): for a suite without elm.json compile never invokes the
\* compiler; it returns OutDirIsNotDir when out_dir exists and is not a
\* directory, and SuiteDoesNotExist for every other out_dir.
C10_SuiteDoesNotExist ==
    (cout # NoCompile /\ ~cin.elm_json) =>
        /\ ~cout.invoked
        /\ cout.res = (IF cin.out_dir = "file" THEN "OutDirIsNotDir" ELSE "SuiteDoesNotExist")

C10_Witness ==
    /\ cout.res = "SuiteDoesNotExist"
    /\ ~cin.elm_json
    /\ cin.out_dir = "absent"
    /\ cin.which_ok /\ cin.spawn_ok /\ cin.status_ok

\* ------------------------------------------------------------ run claims
\* The runtime invocation of lines 150-154 is reached.
RunInvoked ==
    /\ rout # NoRun
    /\ rin.elm_json /\ rin.which_ok /\ rin.output_json = "ok" /\ rin.write_ok

DevNotice ==
    <<"Compiled in ", "DEV",
      " mode. Follow the advice at https://elm-lang.org/0.19.1/optimize for better performance and smaller assets.\n">>

DebugNotice ==
    <<"Compiled in ", "DEBUG",
      " mode. Follow the advice at https://elm-lang.org/0.19.1/optimize for better performance and smaller assets.\n">>

\* C11: run classifies a runtime invocation by first match: launch failure
\* NodeProcess, non-zero exit Runtime, non-empty stdout OutputProduced,
\* stderr that is neither empty nor one of the two notices OutputProduced,
\* success otherwise.
C11_RunClassification ==
    RunInvoked =>
        rout.res = (IF ~rin.spawn_ok THEN "NodeProcess"
                    ELSE IF ~rin.status_ok THEN "Runtime"
                    ELSE IF ~rin.stdout_empty THEN "OutputProduced"
                    ELSE IF rin.stderr \notin {<<>>, DevNotice, DebugNotice} THEN "OutputProduced"
                    ELSE "Ok")

C11_Witness ==
    /\ RunInvoked
    /\ rin.spawn_ok /\ rin.status_ok /\ rin.stdout_empty
    /\ rin.stderr = DebugNotice
    /\ rout.res = "Ok"

\* C12 (as stated): a runtime that was launched and wrote to stdout makes
\* run return OutputProduced, whatever its exit status.
C12_StdoutAlwaysOutputProduced ==
    (RunInvoked /\ rin.spawn_ok /\ ~rin.stdout_empty) => rout.res = "OutputProduced"

\* C12 (amended): a runtime that exited with status zero and wrote to
\* stdout makes run return OutputProduced, whatever stderr holds; one that
\* exited with a non-zero status makes it return Runtime, whatever stdout
\* holds.
C12_StdoutOutputProduced ==
    (RunInvoked /\ rin.spawn_ok /\ ~rin.stdout_empty) =>
        rout.res = (IF rin.status_ok THEN "OutputProduced" ELSE "Runtime")

C12_Witness ==
    /\ RunInvoked
    /\ rin.spawn_ok /\ rin.status_ok /\ ~rin.stdout_empty
    /\ rin.stderr = DevNotice
    /\ rout.res = "OutputProduced"

\* A precondition of run fails: no elm.json, no runtime, or no expected
\* output that can be read as UTF-8.
RunPreconditionFails ==
    ~rin.elm_json \/ ~rin.which_ok \/ rin.output_json # "ok"

C18_Nothing ==
    (rout # NoRun /\ RunPreconditionFails) => (~rout.harness /\ ~rout.launched)

\* C18 (as stated): for a suite with elm.json whose output.json cannot be
\* opened run returns CannotFindExpectedOutput; when a precondition fails no
\* harness is written and no runtime is launched.
C18_AlwaysCannotFind ==
    /\ (rout # NoRun /\ rin.elm_json /\ rin.output_json = "open_fail") =>
          rout.res = "CannotFindExpectedOutput"
    /\ C18_Nothing

\* C18 (amended): for a suite with elm.json whose output.json cannot be
\* opened run returns CannotFindExpectedOutput when the runtime executable
\* resolves and NodeNotFound when it does not; when a precondition fails
\* no harness is written and no runtime is launched.
C18_CannotFind ==
    /\ (rout # NoRun /\ rin.elm_json /\ rin.output_json = "open_fail") =>
          rout.res = (IF rin.which_ok THEN "CannotFindExpectedOutput" ELSE "NodeNotFound")
    /\ C18_Nothing

C18_Witness ==
    /\ rout.res = "CannotFindExpectedOutput"
    /\ rin.elm_json /\ rin.which_ok /\ rin.output_json = "open_fail"
    /\ rin.write_ok /\ rin.spawn_ok
    /\ ~rout.harness /\ ~rout.launched

\* -------------------------------------------------------- compile claims
TargetsUnreadable == cin.targets \in {"open_fail", "read_fail"}

\* The first precondition of compile that fails, in the order out_dir,
\* elm.json, targets.txt, compiler; "none" when all hold.
FirstFailedPrecondition ==
    IF cin.out_dir = "file" THEN "OutDirIsNotDir"
    ELSE IF ~cin.elm_json THEN "SuiteDoesNotExist"
    ELSE IF TargetsUnreadable THEN "ReadingTargets"
    ELSE IF ~cin.which_ok THEN "CompilerNotFound"
    ELSE "none"

\* C14 (as stated): when a precondition of compile fails, compile returns
\* the error of the first one that fails, in the order out_dir not a
\* directory, no elm.json, targets.txt unreadable, compiler unresolvable,
\* and the compiler is not invoked.
C14_PreconditionOrder ==
    (cout # NoCompile /\ FirstFailedPrecondition # "none") =>
        (cout.res = FirstFailedPrecondition /\ ~cout.invoked)

\* C15 (as stated): Main.elm is the entry point only when targets.txt is
\* absent; when targets.txt is there and cannot be opened or cannot be
\* read, compile returns ReadingTargets and does not invoke the compiler.
C15_UnreadableTargets ==
    (cout # NoCompile /\ cin.out_dir # "file" /\ cin.elm_json) =>
        /\ cout.root_files = "Main.elm" => cin.targets = "absent"
        /\ TargetsUnreadable => (cout.res = "ReadingTargets" /\ ~cout.invoked)

\* The compiler invocation of line 102 is reached.
CompileInvoked ==
    /\ cout # NoCompile
    /\ cin.out_dir # "file" /\ cin.elm_json /\ cin.targets # "read_fail" /\ cin.which_ok
    /\ (cin.out_dir = "dir" \/ cin.create_ok) /\ cin.canon_ok

\* C16: compile classifies the compiler invocation by first match: launch
\* failure Process, non-zero exit Compiler, zero exit with stderr
\* CompilerStdErrNotEmpty, success otherwise; it returns success only after
\* a compiler that was launched, exited with zero and left stderr empty.
C16_CompileClassification ==
    /\ CompileInvoked =>
          /\ cout.invoked
          /\ cout.res = (IF ~cin.spawn_ok THEN "Process"
                         ELSE IF ~cin.status_ok THEN "Compiler"
                         ELSE IF ~cin.stderr_empty THEN "CompilerStdErrNotEmpty"
                         ELSE "Ok")
    /\ cout.res = "Ok" =>
          (CompileInvoked /\ cin.spawn_ok /\ cin.status_ok /\ cin.stderr_empty)

C16_Witness ==
    /\ CompileInvoked
    /\ cin.spawn_ok /\ ~cin.status_ok /\ ~cin.stderr_empty
    /\ cout.res = "Compiler"

\* C20: when out_dir does not exist and cannot be created, compile returns
\* an error and the compiler is not invoked.
C20_CreationFailureSurfaces ==
    (cout # NoCompile /\ cin.out_dir = "absent" /\ ~cin.create_ok) =>
        (cout.res \in CompileErrors /\ ~cout.invoked)

C20_Witness ==
    /\ cout.res = "Process"
    /\ cin.out_dir = "absent" /\ ~cin.create_ok
    /\ cin.elm_json /\ cin.targets = "absent" /\ cin.which_ok /\ cin.canon_ok
    /\ cin.spawn_ok /\ cin.status_ok /\ cin.stderr_empty

\* ------------------------------------------------ compile_and_run claims
ValidationErrors == {SuiteNotExist, SuiteNotDir, SuiteNotElm}

\* C17: a suite path that does not exist gives SuiteNotExist, one that is
\* not a directory SuiteNotDir, a directory without elm.json SuiteNotElm;
\* the error is one of these three values whatever the allowed failures
\* are, the call that returns it went through no other stage and acquired
\* no output directory, and every later stage follows a passed validation.
C17_ValidationFirst ==
    /\ (pc = "returned" /\ cur.kind # "elm") =>
          res = (CASE cur.kind = "absent" -> SuiteNotExist
                   [] cur.kind = "file" -> SuiteNotDir
                   [] cur.kind = "dir" -> SuiteNotElm)
    /\ pc \in {"clear", "acquire", "compile", "run"} => cur.kind = "elm"
    /\ \A i \in Calls :
        LET h == hist[i] IN
        /\ h.res.tag \in {"SuiteNotExist", "SuiteNotDir", "SuiteNotElm"} =>
              /\ h.res \in ValidationErrors
              /\ h.stages = {"validate", "returned"}
              /\ h.dir = NoOutDir
        /\ h.stages \cap {"clear", "acquire", "compile", "run"} # {} =>
              {"validate", "valid"} \subseteq h.stages

C17_Witness ==
    /\ pc = "returned"
    /\ cur.kind = "absent"
    /\ res = SuiteNotExist
    /\ cur.suite \in instructions.allowed_failures
    /\ instructions.clear_elm_stuff
    /\ disk = [p \in OutPaths |-> "absent"]

\* C19: elm-stuff is removed only when clear_elm_stuff is set, after the
\* validation and before the output directory is acquired and the compiler
\* invoked; NotFound lets the call go on, any other error aborts the
\* process: nothing happens afterwards, the call returns nothing and no
\* compiler is invoked for this suite or a later one.
C19_State ==
    /\ \A i \in Calls :
        LET st == hist[i].stages IN
        /\ "clear" \in st => (instructions.clear_elm_stuff /\ "valid" \in st)
        /\ (instructions.clear_elm_stuff /\ st \cap {"acquire", "compile", "compiler"} # {})
              => "clear" \in st
    /\ pc = "clear" => hist[idx].stages \cap {"acquire", "compile", "compiler"} = {}
    /\ (pc = "aborted" /\ cur.elm_stuff = "error") =>
          /\ hist[idx].res = NoRes
          /\ hist[idx].stages = {"validate", "valid", "clear"}
          /\ Len(output) < idx
          /\ \A j \in Calls : j > idx => hist[j] = NoHist

C19_Step ==
    /\ (pc = "clear" /\ instructions.clear_elm_stuff) =>
          /\ cur'.elm_stuff \in {"removed", "NotFound"} => pc' = "acquire"
          /\ cur'.elm_stuff = "error" => pc' = "aborted"
    /\ pc = "aborted" => UNCHANGED vars

C19_ClearElmStuff == []C19_State /\ [][C19_Step]_vars

C19_Witness ==
    /\ Batch
    /\ pc = "aborted"
    /\ cur.elm_stuff = "error"
    /\ idx = 2
    /\ idx < Len(suites)
    /\ Len(output) = 1

\* ----------------------------------------------------------- main claims
Failures == {i \in 1..Len(lib_res) : lib_res[i].tag # "Ok"}

\* Only the suite tried last can have failed, and without a failure every
\* suite of the batch is tried.
C13_FirstFailureStops ==
    /\ \A i \in Failures : i = Len(lib_res)
    /\ (task = "RunSuites" /\ pc = "exit" /\ Failures = {}) => Len(lib_res) = Len(suites)

\* C13 (as stated): the process ends with 0 exactly when every suite tried
\* succeeded, with 1 after a compile-stage error and with 2 after a
\* run-stage error; the first failing suite decides and is the last tried.
C13_ExitCodes ==
    pc \in {"exit", "panicked"} =>
        /\ exit_code = 0 <=> Failures = {}
        /\ \A i \in Failures : exit_code = (IF lib_res[i].tag = "Compiler" THEN 1 ELSE 2)
        /\ C13_FirstFailureStops

\* C13 (amended): as stated, except that the process panics, and so ends
\* with the panic status instead of 0 or 1, when the scan for suites fails
\* and when a suite run without a provided output directory fails with
\* the compile-stage error OutDirIsNotDir.
C13_ExitCodesOrPanic ==
    /\ pc = "exit" =>
          /\ exit_code = 0 <=> Failures = {}
          /\ \A i \in Failures :
                /\ exit_code = (IF lib_res[i].tag = "Compiler" THEN 1 ELSE 2)
                /\ lib_res[i].err = "OutDirIsNotDir" => provided_out_dir
    /\ pc = "panicked" =>
          /\ exit_code = PanicStatus
          /\ \/ task = "RunSuites" /\ lib_res = <<>>
             \/ /\ ~provided_out_dir
                /\ lib_res # <<>>
                /\ lib_res[Len(lib_res)] = [tag |-> "Compiler", err |-> "OutDirIsNotDir"]
    /\ pc \in {"exit", "panicked", "iterate"} => C13_FirstFailureStops

C13_Witness ==
    /\ pc = "exit"
    /\ task = "RunSuites"
    /\ exit_code = 2
    /\ Len(lib_res) = 2
    /\ Len(suites) = 3
    /\ lib_res[1].tag = "Ok"

\* C21: in compile_and_run_suites no call is given a provided directory;
\* the directory a call acquires is Tempory, is created in that very step
\* at a path where nothing was, and shares its path with no other call of
\* the batch; the OutDir of every RunFailure is Persistent, at the path
\* its own call acquired and at the path of no other call's directory.
C21_State ==
    Batch =>
        /\ ~provided_out_dir
        /\ out_dir.state \in {"None", "Tempory"}
        /\ \A i \in Calls :
            /\ hist[i].dir.state \in {"None", "Tempory"}
            /\ hist[i].dir.state = "Tempory" =>
                  /\ path(hist[i].dir) # ProvidedPath
                  /\ \A j \in Calls \ {i} : path(hist[j].dir) # path(hist[i].dir)
            /\ hist[i].res.tag = "RunFailure" =>
                  /\ hist[i].res.outdir.state = "Persistent"
                  /\ path(hist[i].res.outdir) = path(hist[i].dir)
                  /\ \A j \in Calls \ {i} :
                        /\ path(hist[j].dir) # path(hist[i].res.outdir)
                        /\ path(hist[j].res.outdir) # path(hist[i].res.outdir)
        /\ \A k \in 1..Len(output) :
              output[k].res.tag = "RunFailure" => output[k].res.outdir.state = "Persistent"

C21_Step ==
    (Batch /\ pc = "acquire" /\ pc' = "compile") =>
        /\ hist[idx].dir = NoOutDir
        /\ out_dir'.state = "Tempory"
        /\ hist'[idx].dir = out_dir'
        /\ disk[path(out_dir')] = "absent"
        /\ disk'[path(out_dir')] = "dir"

C21_OwnOutDir == []C21_State /\ [][C21_Step]_vars

C21_Witness ==
    /\ Batch
    /\ \E i, j \in Calls :
        /\ i < j
        /\ hist[i].res.tag = "RunFailure"
        /\ hist[j].res.tag = "RunFailure"
        /\ hist[i].res.outdir.state = "Persistent"
        /\ hist[j].res.outdir.state = "Persistent"
        /\ path(hist[i].res.outdir) # path(hist[j].res.outdir)
        /\ \E k \in Calls : k < j /\ hist[k].res.tag = "Ok" /\ hist[k].dir.state = "Tempory"

\* C22: in compile_and_run_suites the outcomes that do not count as failed
\* are exactly success and the CompileFailure and RunFailure with allowed =
\* true. With fail_fast the iterator, handed any other outcome (the
\* validation failures and ExpectedFailure included), ends without going to
\* a further suite; handed one of the three, or anything at all without
\* fail_fast, it yields the pair and goes on. The iteration never ends
\* before the input is exhausted but on a failed outcome under fail_fast.
C22_NeverFailed ==
    {Ok} \cup {CompileFailure(TRUE, e) : e \in CompileErrors}
         \cup {RunFailure(TRUE, Persistent(p), e) : p \in OutPaths, e \in RunErrors}

C22_State ==
    Batch =>
        /\ \A i \in Calls :
              hist[i].res # NoRes =>
                  /\ failed(hist[i].res) <=> hist[i].res \notin C22_NeverFailed
                  /\ hist[i].res \in ValidationErrors \cup {ExpectedFailure}
                        => failed(hist[i].res)
        /\ (pc = "done" /\ idx < Len(suites)) =>
              /\ instructions.fail_fast
              /\ hist[idx].res # NoRes
              /\ hist[idx].res \notin C22_NeverFailed

C22_Step ==
    (Batch /\ pc = "returned") =>
        IF instructions.fail_fast /\ res \notin C22_NeverFailed
        THEN pc' = "done" /\ output' = output /\ idx' = idx
        ELSE pc' = "next" /\ output' = Append(output, item(idx, cur.suite, res))

C22_FailedOutcomes == []C22_State /\ [][C22_Step]_vars

C22_Witness ==
    /\ FailFast
    /\ pc = "done"
    /\ idx = 2
    /\ idx < Len(suites)
    /\ hist[1].res.tag = "RunFailure"
    /\ hist[1].res.allowed
    /\ hist[2].res \in ValidationErrors
    /\ Len(output) = 1

====
